---- MODULE Spec2Model ----
(***************************************************************************)
(* LinguaWave: the transcribe -> translate -> synthesize pipeline of       *)
(* src/audio_translator.py (command line) and src/main.py (HTTP service).  *)
(*                                                                         *)
(* A text is a sequence of one-character strings.  The file system of the  *)
(* working directory is a function from the paths that exist to their      *)
(* contents.  Every collaborator call (Whisper, GoogleTranslator, gTTS,    *)
(* ffmpeg) and every file operation is one step of the run that makes it.  *)
(***************************************************************************)
EXTENDS Integers, Sequences, FiniteSets, TLC

(***************************************************************************)
(* Bounds of the model.                                                    *)
(***************************************************************************)
\* Longest transcript the transcription collaborator returns.
MaxLen == 5

\* max_chunk_size of text_to_speech: 5000 in the code (audio_translator.py:88,
\* main.py:224), scaled down so that transcripts of MaxLen characters split
\* into several chunks.
max_chunk_size == 2

\* Characters of a transcript: a letter, the full stop and the blank.
Alphabet == {"a", ".", " "}

\* What str.strip() removes.
Whitespace == {" "}

\* The runs (requests) of the service specification.
Runs == {1, 2}

\* The single run of the one-run-at-a-time specification.
SoloRuns == {1}

(***************************************************************************)
(* Texts.                                                                  *)
(***************************************************************************)
RECURSIVE TextsOfLen(_)
TextsOfLen(n) ==
    IF n = 0 THEN {<<>>}
    ELSE {Append(t, c) : t \in TextsOfLen(n - 1), c \in Alphabet}

\* Every transcript of at most MaxLen characters.
Texts == UNION {TextsOfLen(n) : n \in 0..MaxLen}

\* Transcripts of the service specification: one sentence of 1..MaxLen letters,
\* and one that ends in ". " (its last piece is empty).
ServiceTexts == {[i \in 1..n |-> "a"] : n \in 1..MaxLen} \cup {<<"a", ".", " ">>}

\* text[i:] (1-based: the suffix that starts at position i).
Tail_(s, i) == SubSeq(s, i, Len(s))

\* Position of the first ". " in s, 0 when there is none.
FirstSep(s) ==
    LET hits == {i \in 1..(Len(s) - 1) : s[i] = "." /\ s[i + 1] = " "}
    IN  IF hits = {} THEN 0 ELSE CHOOSE i \in hits : \A j \in hits : i <= j

\* text.split('. '): left to right, non-overlapping, empty pieces kept.
RECURSIVE Split(_)
Split(s) ==
    LET i == FirstSep(s)
    IN  IF i = 0 THEN <<s>>
        ELSE <<SubSeq(s, 1, i - 1)>> \o Split(Tail_(s, i + 2))

\* A strip() that removes nothing.
StripMutKeepsAll(s) == s

\* sentence.strip(): leading and trailing whitespace removed.
RECURSIVE Strip(_)
Strip(s) ==
    IF s = <<>> THEN s
    ELSE IF s[1] \in Whitespace THEN Strip(Tail_(s, 2))
    ELSE IF s[Len(s)] \in Whitespace THEN Strip(SubSeq(s, 1, Len(s) - 1))
    ELSE s

\* '. '.join(parts)
RECURSIVE Join(_)
Join(parts) ==
    IF parts = <<>> THEN <<>>
    ELSE IF Len(parts) = 1 THEN parts[1]
    ELSE parts[1] \o <<".", " ">> \o Join(Tail_(parts, 2))

\* GoogleTranslator(...).translate(sentence) when it succeeds: the stub that
\* upper-cases its input (letters change, punctuation and blanks stay).
Translated(s) == [i \in 1..Len(s) |-> IF s[i] = "a" THEN "A" ELSE s[i]]

\* A slicing that drops the last, shorter slice.
SlicesMutDropPartial(text, cap) ==
    [k \in 1..(Len(text) \div cap) |-> SubSeq(text, (k - 1) * cap + 1, k * cap)]

\* [text[i:i+cap] for i in range(0, len(text), cap)]: one slice per start
\* index 0, cap, 2*cap, ... below len(text), each cut off at the text's end.
Slices(text, cap) ==
    LET n == (Len(text) + cap - 1) \div cap
    IN  [k \in 1..n |->
            SubSeq(text, (k - 1) * cap + 1,
                   IF k * cap < Len(text) THEN k * cap ELSE Len(text))]

\* chunks = [text[i:i+max_chunk_size] for i in range(0, len(text), max_chunk_size)]
Chunks(text) == Slices(text, max_chunk_size)

\* gTTS(text=chunk, ...): the audio of one chunk.
Synthesize(chunk) == [speech |-> chunk]

(***************************************************************************)
(* Paths of the working directory and the file system.                     *)
(***************************************************************************)
CLI == "cli"
TRANSLATE_AUDIO == "translate_audio"
TRANSLATE_AND_SYNTHESIZE == "translate_and_synthesize"
Endpoints == {TRANSLATE_AUDIO, TRANSLATE_AND_SYNTHESIZE}

\* os.getpid() of the service: uvicorn.run(app, ...) serves every request from
\* one process, so every run reads the same value.
ServerPid == 7

\* A tag that is no process id: the command line's names carry no suffix.
NoTag == 0

NoPath == [base |-> "none", idx |-> 0, tag |-> NoTag]

\* f"temp_{i}.mp3" (command line) and f"temp_{i}_{os.getpid()}.mp3" (service).
TempFile(k, i) ==
    [base |-> "temp", idx |-> i, tag |-> IF k = CLI THEN NoTag ELSE ServerPid]

\* "concat_list.txt" and f"concat_list_{os.getpid()}.txt".
ConcatFile(k) ==
    [base |-> "concat_list", idx |-> 0, tag |-> IF k = CLI THEN NoTag ELSE ServerPid]

\* tempfile.NamedTemporaryFile(delete=False, ...).name: unique per request.
UploadPath(r) == [base |-> "upload", idx |-> 0, tag |-> r]

\* args.output of the command line; tempfile.mktemp(suffix=".mp3") of the
\* service, unique per request.
OutputPath(r) == [base |-> "out", idx |-> 0, tag |-> r]

Exists(f, p) == p \in DOMAIN f
Write(f, p, c) == [q \in (DOMAIN f) \cup {p} |-> IF q = p THEN c ELSE f[q]]
Remove(f, p) == [q \in (DOMAIN f) \ {p} |-> f[q]]

\* What ffmpeg -f concat -c copy writes: the listed files' audio, in order.
RECURSIVE ConcatAudio(_, _)
ConcatAudio(f, paths) ==
    IF paths = <<>> THEN <<>>
    ELSE f[paths[1]] \o ConcatAudio(f, Tail_(paths, 2))

\* The validation of an upload: content type "missing", "audio" (starts with
\* audio/) or "other", and whether the extension is in allowed_extensions.
ContentTypes == {"missing", "audio", "other"}
Rejected(ct, ext_allowed) ==
    ct = "missing" \/ (ct # "audio" /\ ~ext_allowed)

\* An upload as the validation sees it; NoUpload for a command-line run.
Uploads == [content_type : ContentTypes, ext_allowed : BOOLEAN]
NoUpload == [content_type |-> "none", ext_allowed |-> FALSE]
ServiceUploads == {[content_type |-> "audio", ext_allowed |-> TRUE],
                   [content_type |-> "missing", ext_allowed |-> TRUE]}

(***************************************************************************)
(* State.                                                                  *)
(***************************************************************************)
VARIABLES
    pc,                    \* position of each run
    kind,                  \* "none", CLI or the endpoint that serves the run
    stage,                 \* Idle, Transcribing, Translating, Synthesizing, Done, Failed
    stage_log,             \* the stages the run has been in, in order
    response,              \* "none", "exit0", "exit1", "200", "400", "500"
    exc,                   \* the exception in flight / reported ("none" if none)
    primary,               \* the first error of the run that is not a cleanup error
    temp_audio_path,       \* the upload's path as the finally clause knows it
    transcribed_text,
    si,                    \* index of the next sentence of the translate loop
    translated_sentences,
    translated_text,
    temp_files,            \* the chunk files saved so far
    ci,                    \* index of the next chunk file of the cleanup loop
    fs,                    \* the working directory: path -> content
    transcribe_calls,      \* number of calls of the transcription collaborator
    tr_log,                \* per translation attempt: the sentence and whether it succeeded
    synth_log,             \* per synthesis attempt: "ok" or "fail"
    concat_log,            \* per ffmpeg invocation: "ok", "failed", "missing_input"
    created,               \* chunk and manifest paths the run's synthesis call wrote
    tts_result,            \* "none", "running", "returned", "raised"
    rm_failed,             \* some deletion of the run failed
    sleeps,                \* number of time.sleep(0.5) calls of the translate loop
    rm_log,                \* per chunk file of the cleanup loop: "removed", "absent", "failed"
    upload                 \* the request's content type and whether its extension is allowed

vars == <<pc, kind, stage, stage_log, response, exc, primary, temp_audio_path,
          transcribed_text, si, translated_sentences, translated_text,
          temp_files, ci, fs, transcribe_calls, tr_log, synth_log, concat_log,
          created, tts_result, rm_failed, sleeps, rm_log, upload>>

Init ==
    /\ pc = [r \in Runs |-> "idle"]
    /\ kind = [r \in Runs |-> "none"]
    /\ stage = [r \in Runs |-> "Idle"]
    /\ stage_log = [r \in Runs |-> <<"Idle">>]
    /\ response = [r \in Runs |-> "none"]
    /\ exc = [r \in Runs |-> "none"]
    /\ primary = [r \in Runs |-> "none"]
    /\ temp_audio_path = [r \in Runs |-> NoPath]
    /\ transcribed_text = [r \in Runs |-> <<>>]
    /\ si = [r \in Runs |-> 1]
    /\ translated_sentences = [r \in Runs |-> <<>>]
    /\ translated_text = [r \in Runs |-> <<>>]
    /\ temp_files = [r \in Runs |-> <<>>]
    /\ ci = [r \in Runs |-> 1]
    /\ fs = [p \in {} |-> <<>>]
    /\ transcribe_calls = [r \in Runs |-> 0]
    /\ tr_log = [r \in Runs |-> <<>>]
    /\ synth_log = [r \in Runs |-> <<>>]
    /\ concat_log = [r \in Runs |-> <<>>]
    /\ created = [r \in Runs |-> {}]
    /\ tts_result = [r \in Runs |-> "none"]
    /\ rm_failed = [r \in Runs |-> FALSE]
    /\ sleeps = [r \in Runs |-> 0]
    /\ rm_log = [r \in Runs |-> <<>>]
    /\ upload = [r \in Runs |-> NoUpload]

\* The run moves to stage s.
Enter(r, s) ==
    /\ stage' = [stage EXCEPT ![r] = s]
    /\ stage_log' = [stage_log EXCEPT ![r] = Append(@, s)]

\* An exception e leaves the stage code of run r and reaches its handler.
Raise(r, e) ==
    /\ exc' = [exc EXCEPT ![r] = e]
    /\ primary' = [primary EXCEPT ![r] = IF @ = "none" /\ e # "cleanup" THEN e ELSE @]
    /\ pc' = [pc EXCEPT ![r] = "epilogue"]

(***************************************************************************)
(* Entry: the command line's main() and the two endpoints.                 *)
(***************************************************************************)
\* main(): the input file is checked; when it is missing, sys.exit(1).
CliStart(r) ==
    /\ pc[r] = "idle"
    /\ kind' = [kind EXCEPT ![r] = CLI]
    /\ \E input_exists \in BOOLEAN :
          IF input_exists
          THEN /\ pc' = [pc EXCEPT ![r] = "transcribe"]
               /\ Enter(r, "Transcribing")
               /\ UNCHANGED <<response, exc, primary>>
          ELSE /\ pc' = [pc EXCEPT ![r] = "done"]
               /\ Enter(r, "Failed")
               /\ response' = [response EXCEPT ![r] = "exit1"]
               /\ exc' = [exc EXCEPT ![r] = "input"]
               /\ primary' = [primary EXCEPT ![r] = "input"]
    /\ UNCHANGED <<temp_audio_path, transcribed_text, si, translated_sentences,
                   translated_text, temp_files, ci, fs, transcribe_calls, tr_log,
                   synth_log, concat_log, created, tts_result, rm_failed,
                   sleeps, rm_log, upload>>

\* An endpoint receives an upload and validates it: 400 when rejected.
Receive(r, U) ==
    /\ pc[r] = "idle"
    /\ \E ep \in Endpoints, u \in U :
          /\ kind' = [kind EXCEPT ![r] = ep]
          /\ upload' = [upload EXCEPT ![r] = u]
          /\ IF Rejected(u.content_type, u.ext_allowed)
             THEN /\ pc' = [pc EXCEPT ![r] = "done"]
                  /\ Enter(r, "Failed")
                  /\ response' = [response EXCEPT ![r] = "400"]
                  /\ exc' = [exc EXCEPT ![r] = "input"]
                  /\ primary' = [primary EXCEPT ![r] = "input"]
             ELSE /\ pc' = [pc EXCEPT ![r] = "create_temp"]
                  /\ UNCHANGED <<stage, stage_log, response, exc, primary>>
    /\ UNCHANGED <<temp_audio_path, transcribed_text, si, translated_sentences,
                   translated_text, temp_files, ci, fs, transcribe_calls, tr_log,
                   synth_log, concat_log, created, tts_result, rm_failed,
                   sleeps, rm_log>>

\* with tempfile.NamedTemporaryFile(delete=False, ...) as temp_audio: the file
\* exists from here on.  /translate-audio's finally clause reads
\* temp_audio.name; /translate-and-synthesize's reads temp_audio_path, which
\* is still None.
CreateTemp(r) ==
    /\ pc[r] = "create_temp"
    /\ fs' = Write(fs, UploadPath(r), <<>>)
    /\ temp_audio_path' = [temp_audio_path EXCEPT ![r] =
           IF kind[r] = TRANSLATE_AUDIO THEN UploadPath(r) ELSE NoPath]
    /\ pc' = [pc EXCEPT ![r] = "read_upload"]
    /\ UNCHANGED <<kind, stage, stage_log, response, exc, primary,
                   transcribed_text, si, translated_sentences, translated_text,
                   temp_files, ci, transcribe_calls, tr_log, synth_log,
                   concat_log, created, tts_result, rm_failed,
                   sleeps, rm_log, upload>>

\* contents = await file.read(); temp_audio.write(contents) succeed;
\* /translate-and-synthesize then sets temp_audio_path = temp_audio.name.
ReadUploadOk(r) ==
    /\ pc[r] = "read_upload"
    /\ fs' = Write(fs, UploadPath(r), <<"contents">>)
    /\ temp_audio_path' = [temp_audio_path EXCEPT ![r] = UploadPath(r)]
    /\ pc' = [pc EXCEPT ![r] = "transcribe"]
    /\ Enter(r, "Transcribing")
    /\ UNCHANGED <<kind, response, exc, primary, transcribed_text, si,
                   translated_sentences, translated_text, temp_files, ci,
                   transcribe_calls, tr_log, synth_log, concat_log, created,
                   tts_result, rm_failed,
                   sleeps, rm_log, upload>>

\* Reading or writing the upload raises: temp_audio_path is not assigned.
ReadUploadFail(r) ==
    /\ pc[r] = "read_upload"
    /\ Raise(r, "upload")
    /\ UNCHANGED <<kind, stage, stage_log, response, temp_audio_path,
                   transcribed_text, si, translated_sentences, translated_text,
                   temp_files, ci, fs, transcribe_calls, tr_log, synth_log,
                   concat_log, created, tts_result, rm_failed,
                   sleeps, rm_log, upload>>

(***************************************************************************)
(* Transcription.                                                          *)
(***************************************************************************)
\* A transcription failure handler that carries on into translation.
TranscribeFailMutContinue(r) ==
    /\ pc[r] = "transcribe"
    /\ transcribe_calls' = [transcribe_calls EXCEPT ![r] = @ + 1]
    /\ exc' = [exc EXCEPT ![r] = "transcription"]
    /\ primary' = [primary EXCEPT ![r] = "transcription"]
    /\ pc' = [pc EXCEPT ![r] = "translate"]
    /\ UNCHANGED <<kind, stage, stage_log, response, temp_audio_path,
                   transcribed_text, si, translated_sentences, translated_text,
                   temp_files, ci, fs, tr_log, synth_log, concat_log, created,
                   tts_result, rm_failed,
                   sleeps, rm_log, upload>>

\* transcribe_audio / transcribe_audio_async returns the transcript t.
TranscribeOk(r, T) ==
    /\ pc[r] = "transcribe"
    /\ transcribe_calls' = [transcribe_calls EXCEPT ![r] = @ + 1]
    /\ \E t \in T : transcribed_text' = [transcribed_text EXCEPT ![r] = t]
    /\ si' = [si EXCEPT ![r] = 1]
    /\ translated_sentences' = [translated_sentences EXCEPT ![r] = <<>>]
    /\ pc' = [pc EXCEPT ![r] = "translate"]
    /\ Enter(r, "Translating")
    /\ UNCHANGED <<kind, response, exc, primary, temp_audio_path,
                   translated_text, temp_files, ci, fs, tr_log, synth_log,
                   concat_log, created, tts_result, rm_failed,
                   sleeps, rm_log, upload>>

\* The model raises: logged and re-raised to the caller.
TranscribeFail(r) ==
    /\ pc[r] = "transcribe"
    /\ transcribe_calls' = [transcribe_calls EXCEPT ![r] = @ + 1]
    /\ Raise(r, "transcription")
    /\ UNCHANGED <<kind, stage, stage_log, response, temp_audio_path,
                   transcribed_text, si, translated_sentences, translated_text,
                   temp_files, ci, fs, tr_log, synth_log, concat_log, created,
                   tts_result, rm_failed,
                   sleeps, rm_log, upload>>

(***************************************************************************)
(* Translation: translate_text and translate_text_async._translate.        *)
(***************************************************************************)
\* sentences = text.split('. ')
Sentences(r) == Split(transcribed_text[r])

\* if not sentence.strip(): continue
TranslateSkip(r) ==
    /\ pc[r] = "translate"
    /\ si[r] <= Len(Sentences(r))
    /\ Strip(Sentences(r)[si[r]]) = <<>>
    /\ si' = [si EXCEPT ![r] = @ + 1]
    /\ UNCHANGED <<pc, kind, stage, stage_log, response, exc, primary,
                   temp_audio_path, transcribed_text, translated_sentences,
                   translated_text, temp_files, ci, fs, transcribe_calls,
                   tr_log, synth_log, concat_log, created, tts_result, rm_failed,
                   sleeps, rm_log, upload>>

\* time.sleep(0.5), then the try block: one pause before each attempt.
TranslateSleep(r) ==
    /\ pc[r] = "translate"
    /\ si[r] <= Len(Sentences(r))
    /\ Strip(Sentences(r)[si[r]]) # <<>>
    /\ sleeps' = [sleeps EXCEPT ![r] = @ + 1]
    /\ pc' = [pc EXCEPT ![r] = "translate_call"]
    /\ UNCHANGED <<kind, stage, stage_log, response, exc, primary,
                   temp_audio_path, transcribed_text, si, translated_sentences,
                   translated_text, temp_files, ci, fs, transcribe_calls,
                   tr_log, synth_log, concat_log, created, tts_result, rm_failed,
                   rm_log, upload>>

\* translator.translate(sentence) succeeds: its result is appended.
TranslateOk(r) ==
    /\ pc[r] = "translate_call"
    /\ si[r] <= Len(Sentences(r))
    /\ Strip(Sentences(r)[si[r]]) # <<>>
    /\ translated_sentences' = [translated_sentences EXCEPT ![r] =
           Append(@, Translated(Sentences(r)[si[r]]))]
    /\ tr_log' = [tr_log EXCEPT ![r] =
           Append(@, [sentence |-> Sentences(r)[si[r]], ok |-> TRUE])]
    /\ si' = [si EXCEPT ![r] = @ + 1]
    /\ pc' = [pc EXCEPT ![r] = "translate"]
    /\ UNCHANGED <<kind, stage, stage_log, response, exc, primary,
                   temp_audio_path, transcribed_text, translated_text,
                   temp_files, ci, fs, transcribe_calls, synth_log, concat_log,
                   created, tts_result, rm_failed,
                   sleeps, rm_log, upload>>

\* A fallback that forgets to append the original sentence.
TranslateFallbackMutDrop(r) ==
    /\ pc[r] = "translate_call"
    /\ si[r] <= Len(Sentences(r))
    /\ Strip(Sentences(r)[si[r]]) # <<>>
    /\ tr_log' = [tr_log EXCEPT ![r] =
           Append(@, [sentence |-> Sentences(r)[si[r]], ok |-> FALSE])]
    /\ si' = [si EXCEPT ![r] = @ + 1]
    /\ pc' = [pc EXCEPT ![r] = "translate"]
    /\ UNCHANGED <<kind, stage, stage_log, response, exc, primary,
                   temp_audio_path, transcribed_text, translated_sentences,
                   translated_text, temp_files, ci, fs, transcribe_calls,
                   synth_log, concat_log, created, tts_result, rm_failed,
                   sleeps, rm_log, upload>>

\* A failed translation that aborts the call instead of falling back.
TranslateFallbackMutRaise(r) ==
    /\ pc[r] = "translate_call"
    /\ si[r] <= Len(Sentences(r))
    /\ Strip(Sentences(r)[si[r]]) # <<>>
    /\ tr_log' = [tr_log EXCEPT ![r] =
           Append(@, [sentence |-> Sentences(r)[si[r]], ok |-> FALSE])]
    /\ Raise(r, "translation")
    /\ UNCHANGED <<kind, stage, stage_log, response, temp_audio_path,
                   transcribed_text, si, translated_sentences, translated_text,
                   temp_files, ci, fs, transcribe_calls, synth_log, concat_log,
                   created, tts_result, rm_failed,
                   sleeps, rm_log, upload>>

\* A fallback that keeps the trimmed sentence instead of the original one.
TranslateFallbackMutTrim(r) ==
    /\ pc[r] = "translate_call"
    /\ si[r] <= Len(Sentences(r))
    /\ Strip(Sentences(r)[si[r]]) # <<>>
    /\ translated_sentences' = [translated_sentences EXCEPT ![r] =
           Append(@, Strip(Sentences(r)[si[r]]))]
    /\ tr_log' = [tr_log EXCEPT ![r] =
           Append(@, [sentence |-> Strip(Sentences(r)[si[r]]), ok |-> FALSE])]
    /\ si' = [si EXCEPT ![r] = @ + 1]
    /\ pc' = [pc EXCEPT ![r] = "translate"]
    /\ UNCHANGED <<kind, stage, stage_log, response, exc, primary,
                   temp_audio_path, transcribed_text, translated_text,
                   temp_files, ci, fs, transcribe_calls, synth_log, concat_log,
                   created, tts_result, rm_failed,
                   sleeps, rm_log, upload>>

\* A failed attempt that is tried again at once, without a pause.
TranslateFallbackMutRetry(r) ==
    /\ pc[r] = "translate_call"
    /\ si[r] <= Len(Sentences(r))
    /\ Strip(Sentences(r)[si[r]]) # <<>>
    /\ Len(tr_log[r]) < si[r]
    /\ tr_log' = [tr_log EXCEPT ![r] =
           Append(@, [sentence |-> Sentences(r)[si[r]], ok |-> FALSE])]
    /\ UNCHANGED <<pc, kind, stage, stage_log, response, exc, primary,
                   temp_audio_path, transcribed_text, si, translated_sentences,
                   translated_text, temp_files, ci, fs, transcribe_calls,
                   synth_log, concat_log, created, tts_result, rm_failed,
                   sleeps, rm_log, upload>>

\* translator.translate(sentence) raises: the warning is logged and the
\* original sentence is appended.
TranslateFallback(r) ==
    /\ pc[r] = "translate_call"
    /\ si[r] <= Len(Sentences(r))
    /\ Strip(Sentences(r)[si[r]]) # <<>>
    /\ translated_sentences' = [translated_sentences EXCEPT ![r] =
           Append(@, Sentences(r)[si[r]])]
    /\ tr_log' = [tr_log EXCEPT ![r] =
           Append(@, [sentence |-> Sentences(r)[si[r]], ok |-> FALSE])]
    /\ si' = [si EXCEPT ![r] = @ + 1]
    /\ pc' = [pc EXCEPT ![r] = "translate"]
    /\ UNCHANGED <<kind, stage, stage_log, response, exc, primary,
                   temp_audio_path, transcribed_text, translated_text,
                   temp_files, ci, fs, transcribe_calls, synth_log, concat_log,
                   created, tts_result, rm_failed,
                   sleeps, rm_log, upload>>

\* return '. '.join(translated_sentences); /translate-audio then builds its
\* response, the other two callers go on to text_to_speech.
TranslateReturn(r) ==
    /\ pc[r] = "translate"
    /\ si[r] > Len(Sentences(r))
    /\ translated_text' = [translated_text EXCEPT ![r] = Join(translated_sentences[r])]
    /\ IF kind[r] = TRANSLATE_AUDIO
       THEN /\ pc' = [pc EXCEPT ![r] = "epilogue"]
            /\ UNCHANGED <<stage, stage_log, tts_result>>
       ELSE /\ pc' = [pc EXCEPT ![r] = "tts_loop"]
            /\ Enter(r, "Synthesizing")
            /\ tts_result' = [tts_result EXCEPT ![r] = "running"]
    /\ temp_files' = [temp_files EXCEPT ![r] = <<>>]
    /\ UNCHANGED <<kind, response, exc, primary, temp_audio_path,
                   transcribed_text, si, translated_sentences, ci, fs,
                   transcribe_calls, tr_log, synth_log, concat_log, created,
                   rm_failed,
                   sleeps, rm_log, upload>>

(***************************************************************************)
(* Synthesis: text_to_speech and text_to_speech_async._text_to_speech.     *)
(***************************************************************************)
\* chunks = [text[i:i+max_chunk_size] for i in range(0, len(text), ...)]
ChunksOf(r) == Chunks(translated_text[r])

\* The exception leaves text_to_speech: logged and re-raised.
TtsRaise(r, e) ==
    /\ Raise(r, e)
    /\ tts_result' = [tts_result EXCEPT ![r] = "raised"]

\* gTTS(...) and tts.save(temp_file) succeed for the next chunk.
TtsChunkOk(r) ==
    /\ pc[r] = "tts_loop"
    /\ Len(temp_files[r]) < Len(ChunksOf(r))
    /\ LET i == Len(temp_files[r])
           temp_file == TempFile(kind[r], i)
       IN  /\ fs' = Write(fs, temp_file, <<Synthesize(ChunksOf(r)[i + 1])>>)
           /\ temp_files' = [temp_files EXCEPT ![r] = Append(@, temp_file)]
           /\ created' = [created EXCEPT ![r] = @ \cup {temp_file}]
    /\ synth_log' = [synth_log EXCEPT ![r] = Append(@, "ok")]
    /\ UNCHANGED <<pc, kind, stage, stage_log, response, exc, primary,
                   temp_audio_path, transcribed_text, si, translated_sentences,
                   translated_text, ci, transcribe_calls, tr_log, concat_log,
                   tts_result, rm_failed,
                   sleeps, rm_log, upload>>

\* A failed chunk that is logged and skipped, the loop carrying on with an
\* empty file in its place.
TtsChunkFailMutSkip(r) ==
    /\ pc[r] = "tts_loop"
    /\ Len(temp_files[r]) < Len(ChunksOf(r))
    /\ LET temp_file == TempFile(kind[r], Len(temp_files[r]))
       IN  /\ fs' = Write(fs, temp_file, <<>>)
           /\ temp_files' = [temp_files EXCEPT ![r] = Append(@, temp_file)]
           /\ created' = [created EXCEPT ![r] = @ \cup {temp_file}]
    /\ synth_log' = [synth_log EXCEPT ![r] = Append(@, "fail")]
    /\ UNCHANGED <<pc, kind, stage, stage_log, response, exc, primary,
                   temp_audio_path, transcribed_text, si, translated_sentences,
                   translated_text, ci, transcribe_calls, tr_log, concat_log,
                   tts_result, rm_failed,
                   sleeps, rm_log, upload>>

\* gTTS(...) or tts.save(temp_file) raises for the next chunk: the exception
\* leaves the loop and the function.  No except clause removes the chunk files
\* saved so far.  (The failed chunk's own file is taken as not written.)
TtsChunkFail(r) ==
    /\ pc[r] = "tts_loop"
    /\ Len(temp_files[r]) < Len(ChunksOf(r))
    /\ synth_log' = [synth_log EXCEPT ![r] = Append(@, "fail")]
    /\ TtsRaise(r, "synthesis")
    /\ UNCHANGED <<kind, stage, stage_log, response, temp_audio_path,
                   transcribed_text, si, translated_sentences, translated_text,
                   temp_files, ci, fs, transcribe_calls, tr_log, concat_log,
                   created, rm_failed,
                   sleeps, rm_log, upload>>

\* A manifest that lists the chunk files last to first.
TtsManifestOkMutReversed(r) ==
    /\ pc[r] = "tts_loop"
    /\ Len(temp_files[r]) = Len(ChunksOf(r))
    /\ Len(temp_files[r]) > 1
    /\ fs' = Write(fs, ConcatFile(kind[r]),
                   [i \in 1..Len(temp_files[r]) |->
                       temp_files[r][Len(temp_files[r]) + 1 - i]])
    /\ created' = [created EXCEPT ![r] = @ \cup {ConcatFile(kind[r])}]
    /\ pc' = [pc EXCEPT ![r] = "tts_ffmpeg"]
    /\ UNCHANGED <<kind, stage, stage_log, response, exc, primary,
                   temp_audio_path, transcribed_text, si, translated_sentences,
                   translated_text, temp_files, ci, transcribe_calls, tr_log,
                   synth_log, concat_log, tts_result, rm_failed,
                   sleeps, rm_log, upload>>

\* len(temp_files) > 1: the manifest is written, one line per chunk file.
TtsManifestOk(r) ==
    /\ pc[r] = "tts_loop"
    /\ Len(temp_files[r]) = Len(ChunksOf(r))
    /\ Len(temp_files[r]) > 1
    /\ fs' = Write(fs, ConcatFile(kind[r]), temp_files[r])
    /\ created' = [created EXCEPT ![r] = @ \cup {ConcatFile(kind[r])}]
    /\ pc' = [pc EXCEPT ![r] = "tts_ffmpeg"]
    /\ UNCHANGED <<kind, stage, stage_log, response, exc, primary,
                   temp_audio_path, transcribed_text, si, translated_sentences,
                   translated_text, temp_files, ci, transcribe_calls, tr_log,
                   synth_log, concat_log, tts_result, rm_failed,
                   sleeps, rm_log, upload>>

\* open(concat_file, "w") raises: no manifest is written, and the exception
\* leaves the function with the chunk files in place.
TtsManifestFail(r) ==
    /\ pc[r] = "tts_loop"
    /\ Len(temp_files[r]) = Len(ChunksOf(r))
    /\ Len(temp_files[r]) > 1
    /\ TtsRaise(r, "manifest")
    /\ UNCHANGED <<kind, stage, stage_log, response, temp_audio_path,
                   transcribed_text, si, translated_sentences, translated_text,
                   temp_files, ci, fs, transcribe_calls, tr_log, synth_log,
                   concat_log, created, rm_failed,
                   sleeps, rm_log, upload>>

\* ffmpeg can read the manifest and every file the manifest lists.
Readable(f, manifest) ==
    /\ Exists(f, manifest)
    /\ \A k \in 1..Len(f[manifest]) : Exists(f, f[manifest][k])

\* os.system("ffmpeg -f concat ... -i concat_file -c copy output_path"): ffmpeg
\* reads the manifest as it is on disk now and writes the output.
TtsFfmpegOk(r) ==
    /\ pc[r] = "tts_ffmpeg"
    /\ Readable(fs, ConcatFile(kind[r]))
    /\ fs' = Write(fs, OutputPath(r), ConcatAudio(fs, fs[ConcatFile(kind[r])]))
    /\ concat_log' = [concat_log EXCEPT ![r] = Append(@, "ok")]
    /\ ci' = [ci EXCEPT ![r] = 1]
    /\ pc' = [pc EXCEPT ![r] = "tts_cleanup"]
    /\ UNCHANGED <<kind, stage, stage_log, response, exc, primary,
                   temp_audio_path, transcribed_text, si, translated_sentences,
                   translated_text, temp_files, transcribe_calls, tr_log,
                   synth_log, created, tts_result, rm_failed,
                   sleeps, rm_log, upload>>

\* ffmpeg fails (always when an input is missing): os.system returns its
\* non-zero status, which is not looked at, and the function carries on.
TtsFfmpegFail(r) ==
    /\ pc[r] = "tts_ffmpeg"
    /\ concat_log' = [concat_log EXCEPT ![r] = Append(@,
           IF Readable(fs, ConcatFile(kind[r])) THEN "failed" ELSE "missing_input")]
    /\ ci' = [ci EXCEPT ![r] = 1]
    /\ pc' = [pc EXCEPT ![r] = "tts_cleanup"]
    /\ UNCHANGED <<kind, stage, stage_log, response, exc, primary,
                   temp_audio_path, transcribed_text, si, translated_sentences,
                   translated_text, temp_files, fs, transcribe_calls, tr_log,
                   synth_log, created, tts_result, rm_failed,
                   sleeps, rm_log, upload>>

\* The next path of the cleanup: the chunk files, then the manifest.
CleanupTarget(r) ==
    IF ci[r] <= Len(temp_files[r]) THEN temp_files[r][ci[r]]
    ELSE ConcatFile(kind[r])

\* After the path at ci: the next one, or the function's normal return.
CleanupAdvance(r) ==
    /\ ci' = [ci EXCEPT ![r] = @ + 1]
    /\ IF ci[r] <= Len(temp_files[r])
       THEN UNCHANGED <<pc, tts_result>>
       ELSE /\ pc' = [pc EXCEPT ![r] = "epilogue"]
            /\ tts_result' = [tts_result EXCEPT ![r] = "returned"]

\* The service removes a path only if os.path.exists says it is there; the
\* command line calls os.remove outright.
ChecksExists(k) == k # CLI

\* A cleanup in which the service reports the path removed but leaves it.
TtsRemoveOkMutServiceKeeps(r) ==
    /\ pc[r] = "tts_cleanup"
    /\ Exists(fs, CleanupTarget(r)) \/ ChecksExists(kind[r])
    /\ fs' = IF kind[r] = CLI THEN Remove(fs, CleanupTarget(r)) ELSE fs
    /\ rm_log' = [rm_log EXCEPT ![r] =
           Append(@, IF Exists(fs, CleanupTarget(r)) THEN "removed" ELSE "absent")]
    /\ CleanupAdvance(r)
    /\ UNCHANGED <<kind, stage, stage_log, response, exc, primary,
                   temp_audio_path, transcribed_text, si, translated_sentences,
                   translated_text, temp_files, transcribe_calls, tr_log,
                   synth_log, concat_log, created, rm_failed,
                   sleeps, upload>>

\* os.remove succeeds; or the path is gone and the service skips it.
TtsRemoveOk(r) ==
    /\ pc[r] = "tts_cleanup"
    /\ Exists(fs, CleanupTarget(r)) \/ ChecksExists(kind[r])
    /\ fs' = Remove(fs, CleanupTarget(r))
    /\ rm_log' = [rm_log EXCEPT ![r] =
           Append(@, IF Exists(fs, CleanupTarget(r)) THEN "removed" ELSE "absent")]
    /\ CleanupAdvance(r)
    /\ UNCHANGED <<kind, stage, stage_log, response, exc, primary,
                   temp_audio_path, transcribed_text, si, translated_sentences,
                   translated_text, temp_files, transcribe_calls, tr_log,
                   synth_log, concat_log, created, rm_failed,
                   sleeps, upload>>

\* os.remove raises (the file cannot be deleted, or the command line finds it
\* gone): the exception leaves the function and the rest is not removed.
TtsRemoveFail(r) ==
    /\ pc[r] = "tts_cleanup"
    /\ Exists(fs, CleanupTarget(r)) \/ ~ChecksExists(kind[r])
    /\ rm_failed' = [rm_failed EXCEPT ![r] = TRUE]
    /\ rm_log' = [rm_log EXCEPT ![r] = Append(@, "failed")]
    /\ TtsRaise(r, "cleanup")
    /\ UNCHANGED <<kind, stage, stage_log, response, temp_audio_path,
                   transcribed_text, si, translated_sentences, translated_text,
                   temp_files, ci, fs, transcribe_calls, tr_log, synth_log,
                   concat_log, created,
                   sleeps, upload>>

\* A rename branch that returns normally when there is no chunk file.
TtsRenameMutEmptyOk(r) ==
    /\ pc[r] = "tts_loop"
    /\ Len(temp_files[r]) = Len(ChunksOf(r))
    /\ Len(temp_files[r]) <= 1
    /\ IF Len(temp_files[r]) = 0
       THEN /\ pc' = [pc EXCEPT ![r] = "epilogue"]
            /\ tts_result' = [tts_result EXCEPT ![r] = "returned"]
            /\ UNCHANGED <<fs, exc, primary>>
       ELSE IF ~Exists(fs, temp_files[r][1])
       THEN /\ TtsRaise(r, "rename")
            /\ UNCHANGED fs
       ELSE /\ fs' = Remove(Write(fs, OutputPath(r), fs[temp_files[r][1]]),
                            temp_files[r][1])
            /\ pc' = [pc EXCEPT ![r] = "epilogue"]
            /\ tts_result' = [tts_result EXCEPT ![r] = "returned"]
            /\ UNCHANGED <<exc, primary>>
    /\ UNCHANGED <<kind, stage, stage_log, response, temp_audio_path,
                   transcribed_text, si, translated_sentences, translated_text,
                   temp_files, ci, transcribe_calls, tr_log, synth_log,
                   concat_log, created, rm_failed,
                   sleeps, rm_log, upload>>

\* else: os.rename(temp_files[0], output_path).  With no chunk at all
\* temp_files[0] raises IndexError; a source that is gone raises as well.
TtsRename(r) ==
    /\ pc[r] = "tts_loop"
    /\ Len(temp_files[r]) = Len(ChunksOf(r))
    /\ Len(temp_files[r]) <= 1
    /\ IF Len(temp_files[r]) = 0
       THEN /\ TtsRaise(r, "index")
            /\ UNCHANGED fs
       ELSE IF ~Exists(fs, temp_files[r][1])
       THEN /\ TtsRaise(r, "rename")
            /\ UNCHANGED fs
       ELSE /\ fs' = Remove(Write(fs, OutputPath(r), fs[temp_files[r][1]]),
                            temp_files[r][1])
            /\ pc' = [pc EXCEPT ![r] = "epilogue"]
            /\ tts_result' = [tts_result EXCEPT ![r] = "returned"]
            /\ UNCHANGED <<exc, primary>>
    /\ UNCHANGED <<kind, stage, stage_log, response, temp_audio_path,
                   transcribed_text, si, translated_sentences, translated_text,
                   temp_files, ci, transcribe_calls, tr_log, synth_log,
                   concat_log, created, rm_failed,
                   sleeps, rm_log, upload>>

(***************************************************************************)
(* The end of a run.                                                       *)
(***************************************************************************)
\* An except clause that logs the error and lets main() end normally.
CliExitMutSwallow(r) ==
    /\ pc[r] = "epilogue"
    /\ kind[r] = CLI
    /\ response' = [response EXCEPT ![r] = "exit0"]
    /\ Enter(r, "Done")
    /\ pc' = [pc EXCEPT ![r] = "done"]
    /\ UNCHANGED <<kind, exc, primary, temp_audio_path, transcribed_text, si,
                   translated_sentences, translated_text, temp_files, ci, fs,
                   transcribe_calls, tr_log, synth_log, concat_log, created,
                   tts_result, rm_failed,
                   sleeps, rm_log, upload>>

\* main(): the last log line and exit code 0, or except Exception: sys.exit(1).
CliExit(r) ==
    /\ pc[r] = "epilogue"
    /\ kind[r] = CLI
    /\ response' = [response EXCEPT ![r] = IF exc[r] = "none" THEN "exit0" ELSE "exit1"]
    /\ Enter(r, IF exc[r] = "none" THEN "Done" ELSE "Failed")
    /\ pc' = [pc EXCEPT ![r] = "done"]
    /\ UNCHANGED <<kind, exc, primary, temp_audio_path, transcribed_text, si,
                   translated_sentences, translated_text, temp_files, ci, fs,
                   transcribe_calls, tr_log, synth_log, concat_log, created,
                   tts_result, rm_failed,
                   sleeps, rm_log, upload>>

\* The endpoint's finally clause, then its response: the return value, or the
\* HTTPException(500) of its except clause.  The upload is unlinked when its
\* path is known and exists.
FinallyOk(r) ==
    /\ pc[r] = "epilogue"
    /\ kind[r] \in Endpoints
    /\ fs' = IF temp_audio_path[r] # NoPath
             THEN Remove(fs, temp_audio_path[r]) ELSE fs
    /\ response' = [response EXCEPT ![r] = IF exc[r] = "none" THEN "200" ELSE "500"]
    /\ Enter(r, IF exc[r] = "none" THEN "Done" ELSE "Failed")
    /\ pc' = [pc EXCEPT ![r] = "done"]
    /\ UNCHANGED <<kind, exc, primary, temp_audio_path, transcribed_text, si,
                   translated_sentences, translated_text, temp_files, ci,
                   transcribe_calls, tr_log, synth_log, concat_log, created,
                   tts_result, rm_failed,
                   sleeps, rm_log, upload>>

\* os.unlink raises inside the finally clause: its exception replaces the
\* return value or the HTTPException on the way out.
FinallyFail(r) ==
    /\ pc[r] = "epilogue"
    /\ kind[r] \in Endpoints
    /\ temp_audio_path[r] # NoPath
    /\ Exists(fs, temp_audio_path[r])
    /\ exc' = [exc EXCEPT ![r] = "cleanup"]
    /\ rm_failed' = [rm_failed EXCEPT ![r] = TRUE]
    /\ response' = [response EXCEPT ![r] = "500"]
    /\ Enter(r, "Failed")
    /\ pc' = [pc EXCEPT ![r] = "done"]
    /\ UNCHANGED <<kind, primary, temp_audio_path, transcribed_text, si,
                   translated_sentences, translated_text, temp_files, ci, fs,
                   transcribe_calls, tr_log, synth_log, concat_log, created,
                   tts_result,
                   sleeps, rm_log, upload>>

(***************************************************************************)
(* Specifications.                                                         *)
(***************************************************************************)
\* The steps of the three stages once Whisper has been called.
Proceed(r) ==
    \/ TranscribeFail(r)
    \/ TranslateSkip(r)
    \/ TranslateSleep(r)
    \/ TranslateOk(r)
    \/ TranslateFallback(r)
    \/ TranslateReturn(r)
    \/ TtsChunkOk(r)
    \/ TtsChunkFail(r)
    \/ TtsManifestOk(r)
    \/ TtsManifestFail(r)
    \/ TtsFfmpegOk(r)
    \/ TtsFfmpegFail(r)
    \/ TtsRemoveOk(r)
    \/ TtsRemoveFail(r)
    \/ TtsRename(r)

\* The steps of a run after its entry; T: the transcripts Whisper may return.
Step(r, T) ==
    \/ CreateTemp(r)
    \/ ReadUploadOk(r)
    \/ ReadUploadFail(r)
    \/ TranscribeOk(r, T)
    \/ Proceed(r)
    \/ FinallyOk(r)
    \/ FinallyFail(r)

\* One run at a time: a command-line invocation, or one request of either
\* endpoint, with any transcript of at most MaxLen characters.
Next ==
    \E r \in SoloRuns :
        CliStart(r) \/ Receive(r, Uploads) \/ CliExit(r) \/ Step(r, Texts)

Spec == Init /\ [][Next]_vars

\* The service: the requests of Runs served concurrently by one process, their
\* stage functions on the threads of the default executor.
NextService ==
    \E r \in Runs : Receive(r, ServiceUploads) \/ Step(r, ServiceTexts)

SpecService == Init /\ [][NextService]_vars

\* The two deployment modes side by side: run 1 is the command line; when it
\* has ended with a transcript, run 2 is a /translate-and-synthesize request
\* for which Whisper returns the same transcript.
CliRun == 1
ServiceRun == 2

\* The transcripts of the comparison.
ModeLen == 3
CliTexts == ServiceTexts \cup {t \in Texts : Len(t) <= ModeLen}

\* The request of the comparison: received once the command-line run has
\* ended with a transcript, and sent to /translate-and-synthesize.
ModeReceive ==
    /\ pc[CliRun] = "done"
    /\ transcribe_calls[CliRun] = 1
    /\ primary[CliRun] # "transcription"
    /\ Receive(ServiceRun, ServiceUploads)
    /\ kind'[ServiceRun] = TRANSLATE_AND_SYNTHESIZE

\* Whisper returns for the request the transcript it returned to the
\* command line.
ModeTranscribeOk == TranscribeOk(ServiceRun, {transcribed_text[CliRun]})

NextModes ==
    \/ CliStart(CliRun)
    \/ TranscribeOk(CliRun, CliTexts)
    \/ Proceed(CliRun)
    \/ CliExit(CliRun)
    \/ ModeReceive
    \/ CreateTemp(ServiceRun)
    \/ ReadUploadOk(ServiceRun)
    \/ ReadUploadFail(ServiceRun)
    \/ ModeTranscribeOk
    \/ Proceed(ServiceRun)
    \/ FinallyOk(ServiceRun)
    \/ FinallyFail(ServiceRun)

SpecModes == Init /\ [][NextModes]_vars

(***************************************************************************)
(* Properties.                                                             *)
(***************************************************************************)
Terminal(r) == pc[r] = "done"

InLog(r, s) == \E k \in 1..Len(stage_log[r]) : stage_log[r][k] = s

\* The translate call of run r has returned or raised.
TranslateEnded(r) ==
    InLog(r, "Translating") /\ pc[r] \notin {"translate", "translate_call"}

\* The synthesis call of run r has returned or raised.
TtsEnded(r) == tts_result[r] \in {"returned", "raised"}

NonBlank(s) == Strip(s) # <<>>

\* The pieces of the transcript that are not empty or whitespace-only.
Segments(r) == SelectSeq(Split(transcribed_text[r]), NonBlank)

\* C1: after any call of the synthesis stage, returned or raised, no chunk
\* file and no manifest that the call created still exists (read with every
\* deletion the code attempts succeeding).
C1_NoTempFileRemains ==
    \A r \in Runs :
        (TtsEnded(r) /\ ~rm_failed[r]) =>
            \A p \in created[r] : ~Exists(fs, p)

\* C2: two runs of the service whose synthesis stages are both under way use
\* disjoint sets of chunk and manifest paths.
C2_DisjointTempPaths ==
    \A r1 \in Runs, r2 \in Runs :
        (r1 # r2 /\ tts_result[r1] = "running" /\ tts_result[r2] = "running") =>
            created[r1] \cap created[r2] = {}

\* The entry of segment i: its translation if the call succeeded, the
\* original segment if it failed.
Entry(r, i) ==
    IF tr_log[r][i].ok THEN Translated(Segments(r)[i]) ELSE Segments(r)[i]

\* C3: once Translate has ended, its output is the ". "-join, in input order,
\* of one entry per non-blank segment: the translation where the call
\* succeeded, the original segment verbatim where it failed.
C3_TranslateOutput ==
    \A r \in Runs :
        TranslateEnded(r) =>
            /\ Len(tr_log[r]) = Len(Segments(r))
            /\ \A i \in 1..Len(tr_log[r]) : tr_log[r][i].sentence = Segments(r)[i]
            /\ translated_text[r] = Join([i \in 1..Len(tr_log[r]) |-> Entry(r, i)])

\* Translate has ended after two attempts, one failed and one successful, and
\* the translation differs from the original.
C3_Witness ==
    \E r \in Runs :
        /\ TranslateEnded(r)
        /\ Len(tr_log[r]) = 2
        /\ \E i, j \in 1..2 : tr_log[r][i].ok /\ ~tr_log[r][j].ok
        /\ translated_text[r] # transcribed_text[r]
        /\ translated_text[r] # Translated(transcribed_text[r])

\* C4: failed translation calls never fail the run: whatever calls failed,
\* Translate returns and the run goes on to its next stage (synthesis, or for
\* /translate-audio the response).
C4_TranslationNeverFailsRun ==
    \A r \in Runs :
        TranslateEnded(r) =>
            /\ primary[r] # "translation"
            /\ kind[r] # TRANSLATE_AUDIO => InLog(r, "Synthesizing")
            /\ kind[r] = TRANSLATE_AUDIO => primary[r] = "none"

\* Every translation call of a run of two segments failed, and the run is in
\* its synthesis stage.
C4_Witness ==
    \E r \in Runs :
        /\ Len(tr_log[r]) = 2
        /\ \A i \in 1..2 : ~tr_log[r][i].ok
        /\ stage[r] = "Synthesizing"

\* C5: if the synthesis collaborator fails on a chunk, that attempt is the
\* last one, ffmpeg is not invoked, nothing is written at the output path, the
\* call raises and the run ends Failed.
C5_SynthesisFailureIsFatal ==
    \A r \in Runs :
        \A k \in 1..Len(synth_log[r]) :
            synth_log[r][k] = "fail" =>
                /\ k = Len(synth_log[r])
                /\ concat_log[r] = <<>>
                /\ ~Exists(fs, OutputPath(r))
                /\ tts_result[r] = "raised"
                /\ primary[r] = "synthesis"
                /\ stage[r] \in {"Synthesizing", "Failed"}
                /\ Terminal(r) => stage[r] = "Failed"

\* The second of two chunks failed and the run has ended.
C5_Witness ==
    \E r \in Runs : synth_log[r] = <<"ok", "fail">> /\ Terminal(r)

\* C6: when more than one chunk was produced and ffmpeg fails, the run ends
\* Failed, the synthesis call having raised, with the chunk files and the
\* manifest deleted.
C6_ConcatFailureIsFatal ==
    \A r \in Runs :
        (/\ Terminal(r)
         /\ Len(temp_files[r]) > 1
         /\ \E k \in 1..Len(concat_log[r]) : concat_log[r][k] # "ok") =>
            /\ stage[r] = "Failed"
            /\ tts_result[r] = "raised"

\* The stage sequences of a run: the pipeline order, cut short by Failed.
StageOrder(k) ==
    IF k = TRANSLATE_AUDIO
    THEN <<"Idle", "Transcribing", "Translating", "Done">>
    ELSE <<"Idle", "Transcribing", "Translating", "Synthesizing", "Done">>

IsPrefix(s, t) == Len(s) <= Len(t) /\ \A i \in 1..Len(s) : s[i] = t[i]

InOrder(log, k) ==
    \/ IsPrefix(log, StageOrder(k))
    \/ /\ log[Len(log)] = "Failed"
       /\ IsPrefix(SubSeq(log, 1, Len(log) - 1),
                   SubSeq(StageOrder(k), 1, Len(StageOrder(k)) - 1))

\* C7: the stages of a run follow the pipeline order; Transcribe is invoked
\* exactly once; no translation call is made before transcription succeeded,
\* no synthesis call before every segment has been attempted, and no call of
\* a later stage after a stage failed.
C7_StagesInOrder ==
    \A r \in Runs :
        /\ InOrder(stage_log[r], kind[r])
        /\ transcribe_calls[r] =
               (IF InLog(r, "Transcribing") /\ pc[r] # "transcribe" THEN 1 ELSE 0)
        /\ tr_log[r] # <<>> =>
               InLog(r, "Translating") /\ primary[r] \notin {"input", "upload", "transcription"}
        /\ (synth_log[r] # <<>> \/ concat_log[r] # <<>>) =>
               /\ InLog(r, "Synthesizing")
               /\ TranslateEnded(r)
               /\ Len(tr_log[r]) = Len(Segments(r))
        /\ primary[r] \in {"input", "upload"} => transcribe_calls[r] = 0
        /\ primary[r] \in {"input", "upload", "transcription"} =>
               tr_log[r] = <<>> /\ synth_log[r] = <<>> /\ concat_log[r] = <<>>

\* A run went through every stage, with two translation calls and two chunks.
C7_Witness ==
    \E r \in Runs :
        /\ stage_log[r] = StageOrder(kind[r])
        /\ kind[r] # TRANSLATE_AUDIO
        /\ Len(tr_log[r]) = 2
        /\ Len(synth_log[r]) = 2

\* None of the run's own collaborator calls and deletions failed.
NoOwnFailure(r) ==
    /\ ~rm_failed[r]
    /\ primary[r] \notin {"input", "upload", "transcription", "manifest"}
    /\ \A k \in 1..Len(synth_log[r]) : synth_log[r][k] = "ok"
    /\ \A k \in 1..Len(concat_log[r]) : concat_log[r][k] # "failed"

\* What run r's synthesis produces when it executes alone and nothing fails.
OwnAudio(r) == [i \in 1..Len(ChunksOf(r)) |-> Synthesize(ChunksOf(r)[i])]

\* C8: concurrent runs of the service are independent: a run none of whose own
\* calls failed ends as it would alone, Done, its output the audio of its own
\* chunks in order.
C8_RunsIndependent ==
    \A r \in Runs :
        (Terminal(r) /\ kind[r] = TRANSLATE_AND_SYNTHESIZE /\ NoOwnFailure(r)) =>
            /\ stage[r] = "Done"
            /\ Exists(fs, OutputPath(r))
            /\ fs[OutputPath(r)] = OwnAudio(r)

\* C9: once a validated request has finished, on any exit path, the temporary
\* file of its upload no longer exists (read with the unlink, where the code
\* attempts it, succeeding).
C9_UploadRemoved ==
    \A r \in Runs :
        (/\ Terminal(r)
         /\ kind[r] \in Endpoints
         /\ response[r] # "400"
         /\ ~rm_failed[r]) =>
            ~Exists(fs, UploadPath(r))

\* The errors of the stages: transcription, and synthesis with its manifest,
\* concatenation and rename.
StageErrors == {"transcription", "synthesis", "manifest", "rename", "index"}

\* C10: a failed deletion never changes the outcome: a run whose stages all
\* succeeded ends Done, and a run that failed reports its stage error.
C10_CleanupNeverChangesOutcome ==
    \A r \in Runs :
        Terminal(r) =>
            /\ (/\ primary[r] = "none"
                /\ \A k \in 1..Len(concat_log[r]) : concat_log[r][k] = "ok") =>
                   stage[r] = "Done"
            /\ primary[r] \in StageErrors => exc[r] = primary[r]

(***************************************************************************)
(* C11, C12: the chunks of the text to synthesize.                         *)
(***************************************************************************)
\* The number of non-empty pieces of at most cap characters a text of n
\* characters is cut into.
ChunkCount(n, cap) == (n + cap - 1) \div cap

\* The chunk files of n chunks, in ordinal order 0, 1, ..., n-1.
ChunkFilesInOrder(k, n) == [i \in 1..n |-> TempFile(k, i - 1)]

\* The synthesis of run r got through its chunk loop.
ChunkLoopDone(r) ==
    \/ pc[r] \in {"tts_ffmpeg", "tts_cleanup"}
    \/ tts_result[r] = "returned"

\* C11: once every chunk of the text has been synthesized, the chunk files
\* written are as many as the text has non-empty size-capped chunks; with
\* more than one chunk the manifest lists exactly those files, each once, in
\* ordinal order 0..n-1, and what ffmpeg concatenates is the chunks' audio in
\* that order.
C11_ChunkFilesAndManifest ==
    \A r \in Runs :
        LET n == ChunkCount(Len(translated_text[r]), max_chunk_size)
            files == ChunkFilesInOrder(kind[r], n)
        IN  /\ ChunkLoopDone(r) =>
                  /\ temp_files[r] = files
                  /\ {p \in created[r] : p.base = "temp"} =
                         {files[i] : i \in 1..n}
                  /\ Cardinality({p \in created[r] : p.base = "temp"}) = n
            /\ pc[r] = "tts_ffmpeg" =>
                  /\ n > 1
                  /\ Exists(fs, ConcatFile(kind[r]))
                  /\ fs[ConcatFile(kind[r])] = files
            /\ concat_log[r] = <<"ok">> =>
                  /\ Exists(fs, OutputPath(r))
                  /\ fs[OutputPath(r)] = OwnAudio(r)
                  /\ Len(fs[OutputPath(r)]) = n

\* A text of three chunks has been concatenated: files 0, 1, 2 in the manifest.
C11_Witness ==
    \E r \in Runs :
        /\ concat_log[r] = <<"ok">>
        /\ Len(temp_files[r]) = 3
        /\ pc[r] = "tts_cleanup"
        /\ ci[r] = 1
        /\ fs[ConcatFile(kind[r])] =
               <<TempFile(kind[r], 0), TempFile(kind[r], 1), TempFile(kind[r], 2)>>

\* The caps the slicing is checked with.
Caps == 1..(MaxLen + 1)

RECURSIVE Flatten(_)
Flatten(parts) ==
    IF parts = <<>> THEN <<>> ELSE parts[1] \o Flatten(Tail_(parts, 2))

\* C12: for the text handed to synthesis and every cap >= 1, the slices are
\* contiguous: each has at most cap characters (and at least one), and
\* their concatenation in order is the text, so their lengths add up to the
\* text's length.
C12_SlicesCoverText ==
    \A r \in Runs : \A cap \in Caps :
        InLog(r, "Synthesizing") =>
            LET parts == Slices(translated_text[r], cap)
            IN  /\ \A i \in 1..Len(parts) :
                      Len(parts[i]) >= 1 /\ Len(parts[i]) <= cap
                /\ Flatten(parts) = translated_text[r]
                /\ Len(parts) = ChunkCount(Len(translated_text[r]), cap)

\* A text whose length is no multiple of the cap has been cut: the last chunk
\* is shorter than the cap.
C12_Witness ==
    \E r \in Runs :
        /\ pc[r] = "tts_loop"
        /\ Len(translated_text[r]) = MaxLen
        /\ Len(ChunksOf(r)) >= 2
        /\ Len(ChunksOf(r)[Len(ChunksOf(r))]) < max_chunk_size
        /\ Len(temp_files[r]) = Len(ChunksOf(r))

(***************************************************************************)
(* C13, C14, C15: the segments handed to the translation collaborator.     *)
(***************************************************************************)
\* The number of occurrences of the delimiter ". " in s.
CountSep(s) ==
    Cardinality({i \in 1..(Len(s) - 1) : s[i] = "." /\ s[i + 1] = " "})

\* s is empty or consists of whitespace only.
IsBlank(s) == \A i \in 1..Len(s) : s[i] \in Whitespace

\* The segment of the i-th translation attempt of run r.
Attempted(r, i) == tr_log[r][i].sentence

\* C13: for a text with N occurrences of ". ", at most N+1 segments are
\* handed to the translation collaborator, and none of them is empty or
\* whitespace-only.
C13_SegmentsBounded ==
    \A r \in Runs :
        /\ Len(tr_log[r]) <= CountSep(transcribed_text[r]) + 1
        /\ \A i \in 1..Len(tr_log[r]) : ~IsBlank(Attempted(r, i))

\* A text with a delimiter and a whitespace-only piece has been translated:
\* fewer than N+1 segments were handed over.
C13_Witness ==
    \E r \in Runs :
        /\ TranslateEnded(r)
        /\ CountSep(transcribed_text[r]) >= 1
        /\ \E i \in 1..Len(Sentences(r)) :
               Sentences(r)[i] # <<>> /\ IsBlank(Sentences(r)[i])
        /\ Len(tr_log[r]) >= 1
        /\ Len(tr_log[r]) < CountSep(transcribed_text[r]) + 1

\* C14 as stated: every segment handed to the translation collaborator has
\* no leading and no trailing whitespace.
C14_SegmentsTrimmed ==
    \A r \in Runs : \A i \in 1..Len(tr_log[r]) :
        /\ Attempted(r, i)[1] \notin Whitespace
        /\ Attempted(r, i)[Len(Attempted(r, i))] \notin Whitespace

\* C14, amended: every segment handed to the translation collaborator, and
\* appended on fallback, is a piece of the split exactly as split() returned
\* it, leading and trailing whitespace included; only pieces that are empty
\* or whitespace-only are left out.
C14_SegmentsVerbatim ==
    \A r \in Runs : \A i \in 1..Len(tr_log[r]) :
        /\ i <= Len(Segments(r))
        /\ Attempted(r, i) = Segments(r)[i]
        /\ ~tr_log[r][i].ok => translated_sentences[r][i] = Segments(r)[i]
        /\ ~IsBlank(Attempted(r, i))

\* A segment with leading whitespace was handed over untrimmed, failed, and
\* was appended as it was.
C14_Witness ==
    \E r \in Runs : \E i \in 1..Len(tr_log[r]) :
        /\ Attempted(r, i)[1] \in Whitespace
        /\ ~tr_log[r][i].ok
        /\ translated_sentences[r][i] = Attempted(r, i)
        /\ TranslateEnded(r)

\* C15: in one translate call the segments are attempted one by one in
\* segment order, each exactly once whether the attempt succeeds or fails,
\* every attempt is preceded by its own pause, and empty or whitespace-only
\* pieces are neither paused for nor attempted.
C15_OneAttemptPerSegment ==
    \A r \in Runs :
        /\ sleeps[r] = Len(tr_log[r]) + (IF pc[r] = "translate_call" THEN 1 ELSE 0)
        /\ Len(tr_log[r]) <= Len(Segments(r))
        /\ \A i \in 1..Len(tr_log[r]) : Attempted(r, i) = Segments(r)[i]
        /\ pc[r] = "translate_call" =>
              /\ Len(tr_log[r]) < Len(Segments(r))
              /\ Sentences(r)[si[r]] = Segments(r)[Len(tr_log[r]) + 1]
        /\ TranslateEnded(r) =>
              /\ Len(tr_log[r]) = Len(Segments(r))
              /\ sleeps[r] = Len(Segments(r))

\* A call with two segments has ended: the first attempt failed and was not
\* repeated, the second succeeded, and there were two pauses.
C15_Witness ==
    \E r \in Runs :
        /\ TranslateEnded(r)
        /\ Len(tr_log[r]) = 2
        /\ ~tr_log[r][1].ok
        /\ tr_log[r][2].ok
        /\ sleeps[r] = 2

(***************************************************************************)
(* C16: the exit code of the command line.                                 *)
(***************************************************************************)
\* Some ffmpeg invocation of run r did not succeed.
ConcatFailed(r) == \E i \in 1..Len(concat_log[r]) : concat_log[r][i] # "ok"

\* C16: a command-line run exits with code 1 whenever the input file is
\* missing or a stage failed (transcription, the synthesis of a chunk, or
\* the concatenation), and exits with code 0 only when no stage failed and
\* the output file was produced.
C16_CliExitCodes ==
    \A r \in Runs :
        (kind[r] = CLI /\ Terminal(r)) =>
            /\ (primary[r] # "none" \/ ConcatFailed(r)) => response[r] = "exit1"
            /\ response[r] = "exit0" =>
                  /\ primary[r] = "none"
                  /\ ~ConcatFailed(r)
                  /\ Exists(fs, OutputPath(r))

(***************************************************************************)
(* C17: the validation of an upload.                                       *)
(***************************************************************************)
\* C17: an upload is answered with 400 exactly when its content type is no
\* audio type (missing, or not starting with audio/) and its extension is
\* not in the allow-list; with an allowed extension it is accepted whatever
\* its content type.
C17_RejectedIffBothChecksFail ==
    \A r \in Runs :
        (kind[r] \in Endpoints /\ pc[r] # "idle") =>
            /\ response[r] = "400" <=>
                  (upload[r].content_type # "audio" /\ ~upload[r].ext_allowed)
            /\ upload[r].ext_allowed => pc[r] # "done" \/ response[r] # "400"

(***************************************************************************)
(* C18: Failed is reachable from every stage; Done and Failed are final.   *)
(***************************************************************************)
NonTerminalStages == {"Idle", "Transcribing", "Translating", "Synthesizing"}
TerminalStages == {"Done", "Failed"}

\* The step that ends run r, taken with an error in flight, ends it Failed.
EndsFailed(r) ==
    (CliExit(r) \/ FinallyOk(r) \/ FinallyFail(r)) /\ stage'[r] = "Failed"

\* A failure is possible where each stage begins: a missing input file or a
\* rejected upload in Idle, a failing transcription in Transcribing, a
\* failing chunk (or no chunk at all) in Synthesizing; and an error in
\* flight can end the run Failed.
FailurePossible(r) ==
    /\ pc[r] = "idle" =>
          /\ stage[r] = "Idle"
          /\ ENABLED (CliStart(r) /\ stage'[r] = "Failed")
          /\ ENABLED (Receive(r, Uploads) /\ stage'[r] = "Failed")
    /\ pc[r] = "transcribe" =>
          /\ stage[r] = "Transcribing"
          /\ ENABLED TranscribeFail(r)
    /\ (pc[r] = "tts_loop" /\ temp_files[r] = <<>>) =>
          /\ stage[r] = "Synthesizing"
          /\ ENABLED ((TtsChunkFail(r) \/ TtsRename(r)) /\ exc'[r] # "none")
    /\ (pc[r] = "epilogue" /\ exc[r] # "none") => ENABLED EndsFailed(r)

\* Done and Failed come last in the stages a run has been in.
TerminalStageLast(r) ==
    /\ stage[r] = stage_log[r][Len(stage_log[r])]
    /\ \A i \in 1..(Len(stage_log[r]) - 1) : stage_log[r][i] \in NonTerminalStages
    /\ stage[r] \in TerminalStages <=> pc[r] = "done"

\* A run in Done or Failed takes no step; a run that ends with an error in
\* flight ends Failed; Failed is entered from a non-terminal stage.
StageStep(r) ==
    /\ stage[r] \in TerminalStages => (stage'[r] = stage[r] /\ pc'[r] = pc[r])
    /\ (pc[r] = "epilogue" /\ exc[r] # "none" /\ pc'[r] = "done") =>
          stage'[r] = "Failed"
    /\ (stage'[r] = "Failed" /\ stage[r] # "Failed") =>
          stage[r] \in NonTerminalStages

Behaviour(r) ==
    <<[i \in 1..Len(tr_log[r]) |-> tr_log[r][i].ok],
      synth_log[r], concat_log[r], rm_log[r]>>

\* The unlink of the upload, which the command line has no counterpart of,
\* failed in run r.
UploadUnlinkFailed(r) ==
    rm_failed[r] /\ \A i \in 1..Len(rm_log[r]) : rm_log[r][i] # "failed"

\* The chunk files and the manifest of run r that are left on disk, by
\* base name and ordinal (the service's names differ by the process id).
LeftBehind(r) ==
    {<<p.base, p.idx>> : p \in {q \in created[r] : Exists(fs, q)}}

\* The output artifact of run r, or <<"none">> when there is none.
Artifact(r) ==
    IF Exists(fs, OutputPath(r)) THEN <<"audio", fs[OutputPath(r)]>> ELSE <<"none">>

\* Both runs have ended, on the same transcript, with the same behaviour of
\* the collaborators.
SameRun ==
    /\ Terminal(CliRun) /\ Terminal(ServiceRun)
    /\ kind[CliRun] = CLI /\ kind[ServiceRun] = TRANSLATE_AND_SYNTHESIZE
    /\ transcribe_calls[CliRun] = 1 /\ transcribe_calls[ServiceRun] = 1
    /\ primary[CliRun] # "transcription" /\ primary[ServiceRun] # "transcription"
    /\ transcribed_text[CliRun] = transcribed_text[ServiceRun]
    /\ Behaviour(CliRun) = Behaviour(ServiceRun)
    /\ ~UploadUnlinkFailed(ServiceRun)

AllBlank(r) == \A i \in 1..Len(Sentences(r)) : IsBlank(Sentences(r)[i])

\* C20: a transcript whose pieces are all empty or whitespace-only is
\* translated to the empty text; and when the text handed to synthesis is
\* empty there is no chunk, the synthesis collaborator is not called, no
\* chunk or manifest file is created, the call raises without an output
\* file, and the run ends Failed.
C20_EmptyTextFails ==
    \A r \in Runs :
        /\ (TranslateEnded(r) /\ AllBlank(r)) =>
              (tr_log[r] = <<>> /\ translated_text[r] = <<>>)
        /\ (InLog(r, "Synthesizing") /\ translated_text[r] = <<>>) =>
              /\ ChunksOf(r) = <<>>
              /\ synth_log[r] = <<>>
              /\ concat_log[r] = <<>>
              /\ created[r] = {}
              /\ ~Exists(fs, OutputPath(r))
              /\ tts_result[r] # "returned"
              /\ TtsEnded(r) => (tts_result[r] = "raised" /\ primary[r] = "index")
              /\ Terminal(r) =>
                    (stage[r] = "Failed" /\ response[r] \in {"exit1", "500"})

\* A run whose transcript is a delimiter between two whitespace-only pieces
\* (or a lone blank) has ended: nothing was translated or synthesized.
C20_Witness ==
    \E r \in Runs :
        /\ Terminal(r)
        /\ transcribed_text[r] # <<>>
        /\ AllBlank(r)
        /\ InLog(r, "Synthesizing")
        /\ translated_text[r] = <<>>
        /\ stage[r] = "Failed"
        /\ primary[r] = "index"

====
